---- MODULE Spec2Model ----
(***************************************************************************)
(* Model of pkg/driver/kubernetes/podchooser/podchooser.go: replica        *)
(* discovery (ListRunningPods) and the two selection policies              *)
(* (RandomPodChooser, StickyPodChooser).                                   *)
(*                                                                         *)
(* Pod names are the integers 1..MaxPods; their order stands for the       *)
(* lexicographic order of the names (w-1 < w-2 < w-3).  Names are unique   *)
(* within one list response, as they are within a namespace.               *)
(*                                                                         *)
(* The orchestrator is the environment: every list call is answered by an  *)
(* arbitrary response (any pods, any phases, any order) or by an error, so *)
(* the pool may change in any way between two list calls.                  *)
(***************************************************************************)
EXTENDS Integers, Sequences, FiniteSets, TLC

VARIABLES
    chooser,    \* the chooser instance: [kind, injected] (RandSource set or nil)
    deplValid,  \* whether Deployment.Name yields a valid label selector
    nodeHash,   \* hash ring position of each pod name (fixed hash function)
    keyHash,    \* hash ring position of StickyPodChooser.Key
    randSrc,    \* the injected rand.Source: [vec, pos]
    pc,         \* per call: "idle", "fallback", "draw", "drawing", "done"
    pods,       \* per call: the local slice `pods` of RandomPodChooser.ChoosePod
    cur,        \* per call: the source position read inside Int63
    lists,      \* per call: outcome of every list call the invocation issued
    fallback,   \* per call: Sticky took the ring-miss branch (line 68)
    drawn,      \* per call: the index n of line 44, -1 when none was drawn
    took,       \* per call: the stream position of the injected source used
    result,     \* per call: what ChoosePod returned
    lresp,      \* discovery alone: the list response
    lout,       \* discovery alone: what ListRunningPods returned for lresp
    members,    \* scaling alone: the names of the Running replicas
    owner,      \* scaling alone: the replica Sticky chooses over members
    before      \* scaling alone: members and owner before the last change

vars == <<chooser, deplValid, nodeHash, keyHash, randSrc, pc, pods, cur, lists,
          fallback, drawn, took, result, lresp, lout, members, owner, before>>

config == <<chooser, deplValid, nodeHash, keyHash>>
callVars == <<randSrc, pc, pods, cur, lists, fallback, drawn, took, result>>
listVars == <<lresp, lout>>
scaleVars == <<members, owner, before>>

(***************************************************************************)
(* Bounds                                                                  *)
(***************************************************************************)
MaxPods == 2        \* pod names of the call model
MaxItems == 3       \* pod names of the discovery-only model
MaxNodes == 3       \* pod names of the scaling-only model
RingSize == 3       \* positions of the hash ring
MaxDraw == 3        \* values of rnd.Int() are 0..MaxDraw-1
SrcLen == 2         \* period of the injected source's stream
MaxStream == 3      \* draws after which no new call on an injected source starts

NilPod == 0         \* a nil *corev1.Pod

Callers == {"a", "b"}
Pods == 1..MaxPods
Phases == {"Pending", "Running", "Succeeded", "Failed", "Unknown"}
PodRunning == "Running"

NoError == "nil"
ListErrors == {"api_error", "context_canceled"}
SelectorError == "invalid_label_selector"
NoRunning == "no builder pods are running"

Range(s) == {s[i] : i \in 1..Len(s)}
Min(S) == CHOOSE x \in S : \A y \in S : x <= y

(***************************************************************************)
(* What the orchestrator may answer to a list call                         *)
(***************************************************************************)
ItemLists(n) ==
    {s \in UNION {[1..k -> [name : 1..n, phase : Phases]] : k \in 0..n} :
        \A i, j \in 1..Len(s) : i # j => s[i].name # s[j].name}

\* The call model lists pods in the Running phase and in one other phase;
\* the discovery-only model lists them in all five.
CallPhases == {"Running", "Pending"}
CallItemLists ==
    {s \in ItemLists(MaxPods) : \A i \in 1..Len(s) : s[i].phase \in CallPhases}
OnlyItemLists == ItemLists(MaxItems)

Replies(lsts) ==
    [err : {NoError}, items : lsts] \cup [err : ListErrors, items : {<<>>}]

CallReplies == Replies(CallItemLists)
OnlyReplies == Replies(OnlyItemLists)

\* The names of the Running pods of a response: the running set of a list
\* call.
RunningNames(items) ==
    {items[i].name : i \in {j \in 1..Len(items) : items[j].phase = "Running"}}

(***************************************************************************)
(* ListRunningPods (lines 91-121)                                          *)
(***************************************************************************)
\* The loop of lines 109-116: keep the items whose phase is PodRunning, in
\* the order of the response.
FilterNotFinished(items) ==
    SelectSeq(items, LAMBDA pod : pod.phase \in {PodRunning, "Pending"})

FilterRunning(items) == SelectSeq(items, LAMBDA pod : pod.phase = PodRunning)

\* sort.Slice with the less function of line 118 (names are unique, so the
\* result does not depend on the sorting algorithm).
RECURSIVE InsertByName(_, _)
InsertByName(pod, s) ==
    IF s = <<>> THEN <<pod>>
    ELSE IF pod.name < Head(s).name THEN <<pod>> \o s
    ELSE <<Head(s)>> \o InsertByName(pod, Tail(s))

RECURSIVE SortByName(_)
SortByName(s) ==
    IF s = <<>> THEN <<>> ELSE InsertByName(Head(s), SortByName(Tail(s)))

ListRunningPodsUnsorted(valid, reply) ==
    IF ~valid THEN [pods |-> <<>>, err |-> SelectorError, called |-> FALSE]
    ELSE IF reply.err # NoError
         THEN [pods |-> <<>>, err |-> reply.err, called |-> TRUE]
    ELSE [pods |-> FilterRunning(reply.items), err |-> NoError, called |-> TRUE]

ListRunningPodsSwallow(valid, reply) ==
    IF ~valid THEN [pods |-> <<>>, err |-> SelectorError, called |-> FALSE]
    ELSE IF reply.err # NoError
         THEN [pods |-> <<>>, err |-> NoError, called |-> TRUE]
    ELSE [pods |-> SortByName(FilterRunning(reply.items)),
          err |-> NoError, called |-> TRUE]

\* valid: LabelSelectorAsSelector succeeded (lines 97-100); reply: what
\* client.List returned.  called says whether the list call was issued.
ListRunningPods(valid, reply) ==
    IF ~valid THEN [pods |-> <<>>, err |-> SelectorError, called |-> FALSE]
    ELSE IF reply.err # NoError
         THEN [pods |-> <<>>, err |-> reply.err, called |-> TRUE]
    ELSE [pods |-> SortByName(FilterRunning(reply.items)),
          err |-> NoError, called |-> TRUE]

PodNamesOf(s) == [i \in 1..Len(s) |-> s[i].name]

(***************************************************************************)
(* RandomPodChooser.ChoosePod, lines 39-46                                 *)
(***************************************************************************)
\* The backing array of `pods` after append(pods[0:n], pods[n+1:]...): the
\* capacity suffices, so the tail is copied one place down in the array the
\* slice `pods` still refers to.  n counts from 0 as in the source.
AppendInPlace(p, n) ==
    [i \in 1..Len(p) |->
        IF i <= n THEN p[i] ELSE IF i < Len(p) THEN p[i + 1] ELSE p[i]]

\* The operands of the return statement of line 46 are an index expression
\* and a call of append on the same array; Go orders calls among themselves
\* only, so pods[n] is read before or after the copy.
EvalOrders == {"index_then_append", "append_then_index"}

RandomReturn(p, n, order) ==
    LET after == AppendInPlace(p, n)
    IN  [chosen |-> IF order = "index_then_append" THEN p[n + 1] ELSE after[n + 1],
         others |-> SubSeq(after, 1, Len(p) - 1),
         err |-> NoError]

\* line 44: rnd.Int() is never negative
DrawIndex(v, len) == v % len

(***************************************************************************)
(* StickyPodChooser.ChoosePod, lines 60-88                                 *)
(***************************************************************************)
\* hashring.New(podNames): every node is written to the ring map at its hash
\* position in the order of podNames, a later node overwriting an earlier
\* one at the same position.  For one key only the first point of a node
\* after the key decides, so a node has one position here.
LastAt(names, h) ==
    names[CHOOSE i \in 1..Len(names) :
            /\ nodeHash[names[i]] = h
            /\ \A j \in 1..Len(names) : nodeHash[names[j]] = h => j <= i]

HashRingNew(names) ==
    [h \in {nodeHash[names[i]] : i \in 1..Len(names)} |-> LastAt(names, h)]

\* ring.GetNode(key): no node on an empty ring; otherwise the node at the
\* first position above the key's, wrapping to the lowest position.
GetNode(ring, kh) ==
    IF DOMAIN ring = {} THEN [ok |-> FALSE, node |-> NilPod]
    ELSE LET above == {h \in DOMAIN ring : h > kh}
             at == IF above = {} THEN Min(DOMAIN ring) ELSE Min(above)
         IN  [ok |-> TRUE, node |-> ring[at]]

\* plain modulo hashing in place of the ring
StickySelectModulo(names) ==
    IF Len(names) = 0 THEN [ok |-> FALSE, chosen |-> NilPod, others |-> <<>>]
    ELSE LET at == names[(keyHash % Len(names)) + 1]
         IN  [ok |-> TRUE, chosen |-> at,
              others |-> SelectSeq(names, LAMBDA nm : nm # at)]

\* a lookup that does not wrap around the ring
StickySelectNoWrap(names) ==
    LET ring == HashRingNew(names)
        above == {h \in DOMAIN ring : h > keyHash}
    IN  IF above = {} THEN [ok |-> FALSE, chosen |-> NilPod, others |-> <<>>]
        ELSE [ok |-> TRUE, chosen |-> ring[Min(above)],
              others |-> SelectSeq(names, LAMBDA nm : nm # ring[Min(above)])]

\* lines 60-67 and 77-88 over the names of `pods`: ok is GetNode's second
\* result; others is the loop of lines 80-86.
StickySelect(names) ==
    LET got == GetNode(HashRingNew(names), keyHash)
    IN  IF ~got.ok THEN [ok |-> FALSE, chosen |-> NilPod, others |-> <<>>]
        ELSE [ok |-> TRUE, chosen |-> got.node,
              others |-> SelectSeq(names, LAMBDA nm : nm # got.node)]

(***************************************************************************)
(* State after construction                                                *)
(***************************************************************************)
\* What one list call of an invocation came to: its error, or the names of
\* the Running pods of its response.
Outcome(reply) == [err |-> reply.err, running |-> RunningNames(reply.items)]

NoResult == [chosen |-> NilPod, others |-> <<>>, err |-> NoError]

\* A chooser is Sticky (Key and so keyHash set), Random with RandSource nil,
\* or Random with an injected RandSource.  Fields a policy does not hold are
\* given one fixed value.
InitCalls ==
    /\ pc = [c \in Callers |-> "idle"]
    /\ pods = [c \in Callers |-> <<>>]
    /\ cur = [c \in Callers |-> 0]
    /\ lists = [c \in Callers |-> <<>>]
    /\ fallback = [c \in Callers |-> FALSE]
    /\ drawn = [c \in Callers |-> -1]
    /\ took = [c \in Callers |-> -1]
    /\ result = [c \in Callers |-> NoResult]

InitSticky ==
    /\ chooser = [kind |-> "Sticky", injected |-> FALSE]
    /\ nodeHash \in [Pods -> 0..(RingSize - 1)]
    /\ keyHash \in 0..(RingSize - 1)
    /\ randSrc = [vec |-> <<>>, pos |-> 0]

InitRandom ==
    /\ nodeHash = [p \in Pods |-> 0]
    /\ keyHash = 0
    /\ \/ /\ chooser = [kind |-> "Random", injected |-> FALSE]
          /\ randSrc = [vec |-> <<>>, pos |-> 0]
       \/ /\ chooser = [kind |-> "Random", injected |-> TRUE]
          /\ randSrc \in [vec : [1..SrcLen -> 0..(MaxDraw - 1)], pos : {0}]

\* ListRunningPods has not returned
NotCalled == [pods |-> <<>>, err |-> "not called", called |-> FALSE]

InitDiscovery ==
    /\ lresp = [valid |-> TRUE, reply |-> [err |-> NoError, items |-> <<>>]]
    /\ lout = NotCalled

InitScale ==
    /\ members = {}
    /\ owner = NilPod
    /\ before = [members |-> {}, owner |-> NilPod]

Init ==
    /\ deplValid \in BOOLEAN
    /\ InitSticky \/ InitRandom
    /\ InitCalls
    /\ InitDiscovery
    /\ InitScale

(***************************************************************************)
(* ChoosePod                                                               *)
(***************************************************************************)
\* return of ChoosePod in call c with result r
Return(c, r) ==
    /\ pc' = [pc EXCEPT ![c] = "done"]
    /\ pods' = [pods EXCEPT ![c] = <<>>]
    /\ cur' = [cur EXCEPT ![c] = 0]
    /\ result' = [result EXCEPT ![c] = r]

Failure(e) == [chosen |-> NilPod, others |-> <<>>, err |-> e]

\* StickyPodChooser.ChoosePod up to its return or to the call of line 75
StickyChoosePod(c) ==
    /\ chooser.kind = "Sticky"
    /\ pc[c] \in {"idle", "done"}
    /\ \E reply \in CallReplies :
        \E got \in {ListRunningPods(deplValid, reply)} :
        \E sel \in {StickySelect(PodNamesOf(got.pods))} :
            /\ lists' = [lists EXCEPT
                    ![c] = IF got.called THEN <<Outcome(reply)>> ELSE <<>>]
            /\ drawn' = [drawn EXCEPT ![c] = -1]
            /\ took' = [took EXCEPT ![c] = -1]
            /\ IF got.err # NoError
                 THEN /\ Return(c, Failure(got.err))
                      /\ fallback' = [fallback EXCEPT ![c] = FALSE]
               ELSE IF ~sel.ok
                 THEN /\ pc' = [pc EXCEPT ![c] = "fallback"]
                      /\ fallback' = [fallback EXCEPT ![c] = TRUE]
                      /\ result' = [result EXCEPT ![c] = NoResult]
                      /\ UNCHANGED <<pods, cur>>
               ELSE /\ Return(c, [chosen |-> sel.chosen, others |-> sel.others,
                                  err |-> NoError])
                    /\ fallback' = [fallback EXCEPT ![c] = FALSE]
    /\ UNCHANGED <<config, randSrc, listVars, scaleVars>>

\* RandomPodChooser.ChoosePod, lines 32-38, called by the caller or by line 75
RandomChoosePod(c) ==
    /\ \/ /\ chooser.kind = "Random"
          /\ pc[c] \in {"idle", "done"}
          /\ chooser.injected => randSrc.pos < MaxStream
       \/ pc[c] = "fallback"
    /\ \E reply \in CallReplies :
        \E got \in {ListRunningPods(deplValid, reply)} :
        \E sofar \in {IF pc[c] = "fallback" THEN lists[c] ELSE <<>>} :
            /\ lists' = [lists EXCEPT
                    ![c] = IF got.called THEN Append(sofar, Outcome(reply))
                           ELSE sofar]
            /\ drawn' = [drawn EXCEPT ![c] = -1]
            /\ took' = [took EXCEPT ![c] = -1]
            /\ IF got.err # NoError THEN Return(c, Failure(got.err))
               ELSE IF Len(got.pods) = 0 THEN Return(c, Failure(NoRunning))
               ELSE /\ pc' = [pc EXCEPT ![c] = "draw"]
                    /\ pods' = [pods EXCEPT ![c] = PodNamesOf(got.pods)]
                    /\ result' = [result EXCEPT ![c] = NoResult]
                    /\ UNCHANGED cur
    /\ UNCHANGED <<config, randSrc, fallback, listVars, scaleVars>>

\* lines 43-46 with the index drawn from value v of the source
Select(c, v) ==
    LET n == DrawIndex(v, Len(pods[c]))
    IN  /\ drawn' = [drawn EXCEPT ![c] = n]
        /\ \E order \in EvalOrders : Return(c, RandomReturn(pods[c], n, order))

\* RandSource is nil (always so in the chooser of line 71): a source seeded
\* from the clock, of this call alone
DrawFresh(c) ==
    /\ pc[c] = "draw"
    /\ fallback[c] \/ ~chooser.injected
    /\ \E v \in 0..(MaxDraw - 1) : Select(c, v)
    /\ UNCHANGED <<config, randSrc, lists, fallback, took, listVars, scaleVars>>

\* Int63 of the injected source reads the source's position ...
SrcRead(c) ==
    /\ pc[c] = "draw"
    /\ ~fallback[c] /\ chooser.injected
    /\ cur' = [cur EXCEPT ![c] = randSrc.pos]
    /\ pc' = [pc EXCEPT ![c] = "drawing"]
    /\ UNCHANGED <<config, randSrc, pods, lists, fallback, drawn, took, result,
                   listVars, scaleVars>>

\* ... and then writes it back advanced, with no lock between the two
SrcWrite(c) ==
    /\ pc[c] = "drawing"
    /\ randSrc' = [randSrc EXCEPT !.pos = cur[c] + 1]
    /\ took' = [took EXCEPT ![c] = cur[c]]
    /\ Select(c, randSrc.vec[(cur[c] % SrcLen) + 1])
    /\ UNCHANGED <<config, lists, fallback, listVars, scaleVars>>

\* One caller, one invocation after another
Next ==
    \/ StickyChoosePod("a")
    \/ RandomChoosePod("a")
    \/ DrawFresh("a")
    \/ SrcRead("a")
    \/ SrcWrite("a")

Spec == Init /\ [][Next]_vars

\* Two callers on the same chooser instance, their steps interleaved
NextConc ==
    \E c \in Callers :
        \/ StickyChoosePod(c)
        \/ RandomChoosePod(c)
        \/ DrawFresh(c)
        \/ SrcRead(c)
        \/ SrcWrite(c)

SpecConc == Init /\ [][NextConc]_vars

(***************************************************************************)
(* Discovery alone: ListRunningPods applied to one response                *)
(***************************************************************************)
InitList ==
    /\ deplValid = TRUE
    /\ chooser = [kind |-> "Random", injected |-> FALSE]
    /\ nodeHash = [p \in Pods |-> 0]
    /\ keyHash = 0
    /\ randSrc = [vec |-> <<>>, pos |-> 0]
    /\ InitCalls
    /\ InitScale
    /\ lresp \in [valid : BOOLEAN, reply : OnlyReplies]
    /\ lout = NotCalled

Discover ==
    /\ lout = NotCalled
    /\ lout' = ListRunningPods(lresp.valid, lresp.reply)
    /\ UNCHANGED <<config, callVars, scaleVars, lresp>>

NextList == Discover

SpecList == InitList /\ [][NextList]_vars

(***************************************************************************)
(* Scaling alone: the replica a StickyPodChooser with a fixed Key chooses  *)
(* as the pool gains or loses one Running replica at a time                *)
(***************************************************************************)
InitScaling ==
    /\ deplValid = TRUE
    /\ chooser = [kind |-> "Sticky", injected |-> FALSE]
    /\ nodeHash \in [1..MaxNodes -> 0..(RingSize - 1)]
    /\ keyHash \in 0..(RingSize - 1)
    /\ randSrc = [vec |-> <<>>, pos |-> 0]
    /\ InitCalls
    /\ InitDiscovery
    /\ InitScale

\* The responses that list exactly the replicas of set S, all Running
ListingsOf(S) ==
    {s \in [1..Cardinality(S) -> [name : S, phase : {PodRunning}]] :
        \A i, j \in 1..Len(s) : i # j => s[i].name # s[j].name}

\* lines 56-77 over a pool whose Running replicas are S
Choose(S) ==
    /\ \E items \in ListingsOf(S) :
       \E got \in {ListRunningPods(TRUE, [err |-> NoError, items |-> items])} :
            owner' = StickySelect(PodNamesOf(got.pods)).chosen
    /\ before' = [members |-> members, owner |-> owner]
    /\ members' = S

ScaleUp ==
    /\ \E e \in (1..MaxNodes) \ members : Choose(members \cup {e})
    /\ UNCHANGED <<config, callVars, listVars>>

ScaleDown ==
    /\ \E x \in members : Choose(members \ {x})
    /\ UNCHANGED <<config, callVars, listVars>>

NextScale == ScaleUp \/ ScaleDown

SpecScale == InitScaling /\ [][NextScale]_vars

(***************************************************************************)
(* Properties                                                              *)
(***************************************************************************)
Done(c) == pc[c] = "done"
Succeeded(c) == Done(c) /\ result[c].err = NoError
LastList(c) == lists[c][Len(lists[c])]
NoDuplicates(s) == \A i, j \in 1..Len(s) : i # j => s[i] # s[j]

\* the names of set S in ascending order
Ascending(S) ==
    CHOOSE s \in [1..Cardinality(S) -> S] :
        \A i, j \in 1..Cardinality(S) : i < j => s[i] < s[j]

\* sequence s without its element at position k
Without(s, k) == [i \in 1..(Len(s) - 1) |-> IF i < k THEN s[i] ELSE s[i + 1]]

\* every list call of the invocation succeeded and found the same Running
\* names
Uniform(l) ==
    /\ Len(l) >= 1
    /\ \A i \in 1..Len(l) : l[i].err = NoError /\ l[i].running = l[1].running

\* C1: a successful ChoosePod of either policy returns chosen and others with
\* chosen not among others, others free of duplicates and one shorter than
\* the running set, and chosen together with others equal to the running set
\* of that call.
C1_Partition ==
    \A c \in Callers :
        Succeeded(c) =>
            LET S == LastList(c).running
                r == result[c]
            IN  /\ r.chosen \notin Range(r.others)
                /\ Len(r.others) = Cardinality(S) - 1
                /\ NoDuplicates(r.others)
                /\ {r.chosen} \cup Range(r.others) = S

\* C2: an invocation whose discovery succeeded with zero Running replicas
\* (and none of whose list calls failed) returns the "no running replicas"
\* error and no chosen replica, whatever the pool does while the call is in
\* progress.
C2_EmptyFails ==
    \A c \in Callers :
        (Done(c) /\ Len(lists[c]) >= 1 /\ lists[c][1].running = {}
                 /\ \A i \in 1..Len(lists[c]) : lists[c][i].err = NoError)
            => /\ result[c].err = NoRunning
               /\ result[c].chosen = NilPod

\* C3: with a fixed Key, an invocation that finds the Running names the
\* invocation before it found returns the same chosen replica (none, when
\* there are no Running replicas), in whatever order the replicas are listed.
C3_Step ==
    \A c \in Callers :
        /\ (Done(c) /\ Uniform(lists[c]) /\ lists[c][1].running = {})
                => result[c].chosen = NilPod
        /\ (/\ chooser.kind = "Sticky"
            /\ Done(c) /\ pc'[c] = "done"
            /\ Uniform(lists[c]) /\ Uniform(lists'[c])
            /\ lists'[c][1].running = lists[c][1].running)
                => result'[c].chosen = result[c].chosen

C3_StickyConsistent == [][C3_Step]_vars

C3_Witness ==
    /\ chooser.kind = "Sticky"
    /\ Done("a")
    /\ lists["a"] = <<[err |-> NoError, running |-> {1, 2}]>>
    /\ nodeHash[1] = nodeHash[2]
    /\ result["a"].chosen = 2

\* C4: ListRunningPods returns exactly the pods of the response whose phase
\* is Running, each once, in ascending order of name; the response
\* [w-1 Running, w-2 Running, w-3 Pending] yields [w-1, w-2].
C4_RunningSorted ==
    lout.err = NoError =>
        LET items == lresp.reply.items
            names == PodNamesOf(lout.pods)
        IN  /\ Range(lout.pods) = {it \in Range(items) : it.phase = "Running"}
            /\ Len(names) = Cardinality(RunningNames(items))
            /\ \A i, j \in 1..Len(names) : i < j => names[i] < names[j]
            /\ items = <<[name |-> 1, phase |-> "Running"],
                         [name |-> 2, phase |-> "Running"],
                         [name |-> 3, phase |-> "Pending"]>>
                  => names = <<1, 2>>

C4_Witness ==
    /\ lresp.reply.items = <<[name |-> 2, phase |-> "Running"],
                             [name |-> 3, phase |-> "Pending"],
                             [name |-> 1, phase |-> "Running"]>>
    /\ PodNamesOf(lout.pods) = <<1, 2>>
    /\ lout.err = NoError

\* C5: a list call that fails ends the invocation: its error is the
\* invocation's result, unchanged, with no chosen replica and no others, and
\* no list call follows it.
C5_ListErrorPropagated ==
    \A c \in Callers :
        \A i \in 1..Len(lists[c]) :
            lists[c][i].err # NoError =>
                /\ i = Len(lists[c])
                /\ Done(c)
                /\ result[c] = [chosen |-> NilPod, others |-> <<>>,
                                err |-> lists[c][i].err]
                /\ result[c].err # NoRunning

C5_Witness ==
    /\ chooser.kind = "Random"
    /\ Done("a")
    /\ lists["a"] = <<[err |-> "context_canceled", running |-> {}]>>
    /\ result["a"].err = "context_canceled"

\* C6: every completed invocation (on a Deployment whose selector can be
\* built) issued exactly one list call, and chosen and others are Running
\* replicas of that call's response.
C6_OneListCall ==
    \A c \in Callers :
        (Done(c) /\ deplValid) =>
            /\ Len(lists[c]) = 1
            /\ Succeeded(c) =>
                  {result[c].chosen} \cup Range(result[c].others)
                        \subseteq lists[c][1].running

\* C7: with a fixed Key whose replica over running set S is C, the replica
\* over S with one replica E added is C or E, and the replica over S with a
\* replica other than C removed is C.
C7_ScaleMovesOnlyOwner ==
    /\ (before.members # {} /\ before.members \subseteq members
            /\ Cardinality(members) = Cardinality(before.members) + 1)
        => owner \in {before.owner} \cup (members \ before.members)
    /\ (members \subseteq before.members
            /\ Cardinality(members) = Cardinality(before.members) - 1
            /\ before.owner \in members)
        => owner = before.owner

C7_Witness ==
    /\ before.members = {1, 2}
    /\ before.owner = 1
    /\ members = {1, 2, 3}
    /\ owner = 3

\* C8: two calls on one chooser instance get results that some serial order
\* of the two gives.  Run one after the other on an injected RandSource they
\* take successive draws of its stream, so when both took the draw at
\* position k, one of the two indices is the one the draw at k + 1 gives.
StreamIndex(k, c) ==
    DrawIndex(randSrc.vec[(k % SrcLen) + 1], Cardinality(LastList(c).running))

C8_Serializable ==
    \A c, d \in Callers :
        (c # d /\ Succeeded(c) /\ Succeeded(d) /\ took[c] >= 0
               /\ took[c] = took[d])
            => \/ drawn[c] = StreamIndex(took[c] + 1, c)
               \/ drawn[d] = StreamIndex(took[d] + 1, d)

\* C9: a successful RandomPodChooser.ChoosePod over the name-sorted running
\* set of length N drew an index n with 0 <= n < N, returns the replica at
\* position n as chosen and the set without that position, in order, as
\* others.
C9_RandomSelection ==
    \A c \in Callers :
        (chooser.kind = "Random" /\ Succeeded(c)) =>
            LET sorted == Ascending(LastList(c).running)
                n == drawn[c]
            IN  /\ 0 <= n /\ n < Len(sorted)
                /\ result[c].chosen = sorted[n + 1]
                /\ result[c].others = Without(sorted, n + 1)

\* C10: the Sticky fallback is taken only after a discovery that found no
\* Running replica; a fallback whose own discovery finds Running replicas
\* returns one of them, drawn at random, and no error.
C10_FallbackOnlyOnEmptyRing ==
    \A c \in Callers :
        /\ fallback[c] =>
              /\ chooser.kind = "Sticky"
              /\ Len(lists[c]) >= 1
              /\ lists[c][1].err = NoError
              /\ lists[c][1].running = {}
        /\ (fallback[c] /\ Done(c) /\ Len(lists[c]) = 2
                /\ lists[c][2].err = NoError /\ lists[c][2].running # {})
              => /\ result[c].err = NoError
                 /\ result[c].chosen \in lists[c][2].running
                 /\ drawn[c] \in 0..(Cardinality(lists[c][2].running) - 1)

C10_Witness ==
    /\ fallback["a"] /\ Done("a")
    /\ lists["a"] = <<[err |-> NoError, running |-> {}],
                      [err |-> NoError, running |-> {1, 2}]>>
    /\ result["a"].err = NoError
    /\ result["a"].chosen = 2

====
